---------------------------- MODULE Spec2Model ----------------------------
(***************************************************************************)
(* A model of tts-bot.py (class TTSApp): the notification store read with  *)
(* a chain of text encodings and rewritten wholesale, the speech sessions  *)
(* started by the user interface and by the auto-reading loop, the         *)
(* cancellation flag and the auto-reading scheduler.                       *)
(*                                                                         *)
(* The store is a sequence of bytes.  Characters are code points.  A JSON  *)
(* record line {"timestamp": t, "message": m, "spoken": s} is abbreviated  *)
(* to the characters  { t m [s] }  with t a digit, m one message           *)
(* character and s one of t/f (absent when the key is absent); a line      *)
(* holding one digit is a JSON number (valid JSON, not an object); every   *)
(* other line is not JSON.                                                 *)
(***************************************************************************)
EXTENDS Integers, Sequences, FiniteSets, TLC

VARIABLES
    file,               \* bytes of notification_queue.txt, or NoFile
    backup,             \* bytes of notification_queue.txt.backup, or NoFile
    written,            \* what a producer wrote the store as: [enc, lines]
    lastOp,             \* the operation applied last, with its result
    is_speaking_live,   \* self.is_speaking_live
    stop_speech_flag,   \* self.stop_speech_flag
    is_generating,      \* self.is_generating
    tts_engine,         \* self.tts_engine
    selected_voice_id,  \* self.selected_voice_id
    auto_reading_active,\* self.auto_reading_active
    auto_reading_thread,\* self.auto_reading_thread: a loop thread or NoThread
    music,              \* pygame.mixer.music: [busy]
    ui,                 \* what the user-interface thread is blocked in
    threads,            \* the worker threads: [pc, ns, out]
    skipped,            \* per loop thread: was Skip pressed on its record
    voices,             \* self.voices
    gtts_available,     \* GTTS_AVAILABLE
    combo,              \* number of entries of self.voice_combo
    after_queue,        \* callbacks _load_voices left with master.after
    temps,              \* threads whose temporary audio file exists
    current_audio_path, \* self.current_audio_path names a generated file
    failed,             \* per loop thread: did a step of this tick fail
    faults              \* failures the environment may still produce

storeVars == <<file, backup>>
flagVars  == <<is_speaking_live, stop_speech_flag, is_generating>>
voiceVars == <<tts_engine, selected_voice_id>>
schedVars == <<auto_reading_active, auto_reading_thread>>
catalogVars == <<voices, gtts_available, combo, after_queue>>
moreVars  == <<catalogVars, temps, current_audio_path, failed, faults>>
progVars  == <<flagVars, voiceVars, schedVars, music, ui, threads, skipped,
               moreVars>>
ghostVars == <<written, lastOp>>
vars      == <<storeVars, ghostVars, progVars>>

NoFile == <<-1>>
NoThread == 0

-----------------------------------------------------------------------------
(* Bounds of the model.                                                    *)

\* lines of a store file drawn in the store specification
MaxLines == 2
\* calls that fail in one run
MaxFaults == 1
\* characters of a message drawn for the spoken text
MaxMessage == 1
\* callbacks waiting on the interface thread when Refresh is pressed
MaxQueue == 1
\* auto-reading worker threads alive at once
MaxLoops == 2
\* Speak Live worker threads alive at once
MaxLive == 1
\* Play Last Notification threads alive at once
MaxLast == 2
\* Generate Audio worker threads alive at once
MaxGen == 1
\* _load_voices threads alive at once
MaxLoad == 2

-----------------------------------------------------------------------------
(* Characters and bytes.                                                   *)

\* The code points the model's texts are made of: the line feed, the blank,
\* the braces and true/false of a JSON object line, text that is not JSON,
\* the message characters A, B and e-acute, and the escape json.dumps writes
\* for e-acute.
Ch == [nl |-> 10, sp |-> 32, lbrace |-> 123, rbrace |-> 125, true |-> 116,
       false |-> 102, junk |-> 120, a |-> 65, b |-> 66, eacute |-> 233,
       esc |-> 101]

\* str.splitlines() boundaries and str.strip() whitespace
LineBreaks == {10, 11, 12, 13, 28, 29, 30, 133, 8232, 8233}
Whitespace == {9, 10, 11, 12, 13, 28, 29, 30, 31, 32, 133, 160}

TsDigits == {49, 50}
Timestamp(d) == d - 48

Ok(s) == [err |-> "none", chars |-> s]
Fail(e) == [err |-> e, chars |-> <<>>]

Min(S) == CHOOSE x \in S : \A y \in S : x <= y

-----------------------------------------------------------------------------
(* The codecs of open(..., encoding=...).read(): "decode" is a             *)
(* UnicodeDecodeError, "unicode" a UnicodeError that is not one.  Code     *)
(* units D800..DFFF and the four-byte UTF-8 forms are outside the bytes    *)
(* the model draws.                                                        *)

Utf8Width(c) ==
    IF c < 128 THEN 1
    ELSE IF c \in 194..223 THEN 2
    ELSE IF c \in 224..239 THEN 3
    ELSE 0

RECURSIVE Utf8Decode(_)
Utf8Decode(b) ==
    IF b = <<>> THEN Ok(<<>>)
    ELSE LET c == Head(b)
             n == Utf8Width(c)
         IN  IF n = 0 \/ Len(b) < n \/ \E k \in 2..n : b[k] \notin 128..191
             THEN Fail("decode")
             ELSE LET rest == Utf8Decode(SubSeq(b, n + 1, Len(b)))
                      cp == CASE n = 1 -> c
                              [] n = 2 -> (c - 192) * 64 + (b[2] - 128)
                              [] n = 3 -> (c - 224) * 4096 + (b[2] - 128) * 64
                                          + (b[3] - 128)
                  IN  IF rest.err # "none" THEN rest
                      ELSE Ok(<<cp>> \o rest.chars)

RECURSIVE Utf16Units(_, _)
Utf16Units(b, big) ==
    IF b = <<>> THEN <<>>
    ELSE <<IF big THEN b[1] * 256 + b[2] ELSE b[2] * 256 + b[1]>>
         \o Utf16Units(SubSeq(b, 3, Len(b)), big)

Utf16LeDecode(b) ==
    IF Len(b) % 2 = 1 THEN Fail("decode") ELSE Ok(Utf16Units(b, FALSE))

Utf16BeDecode(b) ==
    IF Len(b) % 2 = 1 THEN Fail("decode") ELSE Ok(Utf16Units(b, TRUE))

\* 'utf-16': the byte order mark picks the order; without one the decoder
\* raises "UTF-16 stream does not start with BOM" (a UnicodeError) unless the
\* data is truncated (a UnicodeDecodeError).
Utf16Decode(b) ==
    IF Len(b) >= 2 /\ SubSeq(b, 1, 2) = <<255, 254>>
    THEN Utf16LeDecode(SubSeq(b, 3, Len(b)))
    ELSE IF Len(b) >= 2 /\ SubSeq(b, 1, 2) = <<254, 255>>
    THEN Utf16BeDecode(SubSeq(b, 3, Len(b)))
    ELSE IF Len(b) % 2 = 1 THEN Fail("decode")
    ELSE IF b = <<>> THEN Ok(<<>>)
    ELSE Fail("unicode")

Latin1Decode(b) == Ok(b)

encodings_to_try == <<"utf-8", "utf-16", "utf-16-le", "utf-16-be", "latin-1">>

DecodeWith(enc, b) ==
    CASE enc = "utf-8" -> Utf8Decode(b)
      [] enc = "utf-16" -> Utf16Decode(b)
      [] enc = "utf-16-le" -> Utf16LeDecode(b)
      [] enc = "utf-16-be" -> Utf16BeDecode(b)
      [] enc = "latin-1" -> Latin1Decode(b)

\* The loop over encodings_to_try: the first encoding that does not raise
\* UnicodeDecodeError ends it; any other exception leaves the loop and the
\* function; "undecodable" is content None.
RECURSIVE TryEncodings(_, _)
TryEncodings(b, i) ==
    IF i > Len(encodings_to_try) THEN Fail("undecodable")
    ELSE LET r == DecodeWith(encodings_to_try[i], b)
         IN  IF r.err = "decode" THEN TryEncodings(b, i + 1) ELSE r

ReadContent(b) == TryEncodings(b, 1)

\* The encoders a writer of the store uses.
RECURSIVE Utf8Encode(_)
Utf8Encode(s) ==
    IF s = <<>> THEN <<>>
    ELSE LET c == Head(s)
         IN  (IF c < 128 THEN <<c>>
              ELSE <<192 + (c \div 64), 128 + (c % 64)>>)
             \o Utf8Encode(Tail(s))

RECURSIVE Utf16Encode(_, _)
Utf16Encode(s, big) ==
    IF s = <<>> THEN <<>>
    ELSE LET c == Head(s)
         IN  (IF big THEN <<c \div 256, c % 256>> ELSE <<c % 256, c \div 256>>)
             \o Utf16Encode(Tail(s), big)

EncodeWith(enc, s) ==
    CASE enc = "utf-8" -> Utf8Encode(s)
      [] enc = "utf-16" -> <<255, 254>> \o Utf16Encode(s, FALSE)
      [] enc = "utf-16-le" -> Utf16Encode(s, FALSE)
      [] enc = "utf-16-be" -> Utf16Encode(s, TRUE)
      [] enc = "latin-1" -> s

-----------------------------------------------------------------------------
(* Lines and JSON.                                                         *)

\* content.splitlines()
RECURSIVE SplitLines(_)
SplitLines(s) ==
    IF s = <<>> THEN <<>>
    ELSE LET brk == {i \in 1..Len(s) : s[i] \in LineBreaks}
         IN  IF brk = {} THEN <<s>>
             ELSE <<SubSeq(s, 1, Min(brk) - 1)>>
                  \o SplitLines(SubSeq(s, Min(brk) + 1, Len(s)))

\* line.strip()
RECURSIVE Strip(_)
Strip(s) ==
    IF s # <<>> /\ Head(s) \in Whitespace THEN Strip(Tail(s))
    ELSE IF s # <<>> /\ s[Len(s)] \in Whitespace
    THEN Strip(SubSeq(s, 1, Len(s) - 1))
    ELSE s

\* A message character as json.loads reads it: the escape stands for the
\* character it escapes.
MsgChars == {Ch.a, Ch.b, Ch.eacute, Ch.esc}
Unescape(c) == IF c = Ch.esc THEN Ch.eacute ELSE c
\* json.dumps (ensure_ascii) writes a non-ASCII character as its escape.
Escape(c) == IF c >= 128 THEN Ch.esc ELSE c

Obj(t, m, s) == [kind |-> "obj", timestamp |-> t, message |-> m, spoken |-> s]
Junk == [kind |-> "junk", timestamp |-> 0, message |-> 0, spoken |-> "absent"]
Scalar(d) == [kind |-> "scalar", timestamp |-> d, message |-> 0, spoken |-> "absent"]

\* json.loads(line): an object, another JSON value, or JSONDecodeError (junk).
JsonLoads(line) ==
    IF Len(line) = 1 /\ line[1] \in 48..57 THEN Scalar(line[1] - 48)
    ELSE IF /\ Len(line) \in {4, 5}
            /\ line[1] = Ch.lbrace
            /\ line[Len(line)] = Ch.rbrace
            /\ line[2] \in TsDigits
            /\ line[3] \in MsgChars
            /\ Len(line) = 5 => line[4] \in {Ch.true, Ch.false}
    THEN Obj(Timestamp(line[2]), Unescape(line[3]),
             IF Len(line) = 4 THEN "absent"
             ELSE IF line[4] = Ch.true THEN "true" ELSE "false")
    ELSE Junk

\* json.dumps(notif) of an object
JsonDumps(n) ==
    <<Ch.lbrace, n.timestamp + 48, Escape(n.message)>>
    \o (CASE n.spoken = "absent" -> <<>>
          [] n.spoken = "true" -> <<Ch.true>>
          [] n.spoken = "false" -> <<Ch.false>>)
    \o <<Ch.rbrace>>

\* The parsed values of the non-empty lines of a decoded content, junk
\* lines included, in file order.
RECURSIVE LoadLines(_)
LoadLines(lines) ==
    IF lines = <<>> THEN <<>>
    ELSE LET line == Strip(Head(lines))
         IN  (IF line = <<>> THEN <<>> ELSE <<JsonLoads(line)>>)
             \o LoadLines(Tail(lines))

-----------------------------------------------------------------------------
(* The notification store.                                                 *)

Result(st, rs) == [status |-> st, recs |-> rs]

\* The identity key of _update_notification_status.
SameKey(a, b) == a.timestamp = b.timestamp /\ a.message = b.message

\* _check_notifications, the loop over the lines: a line json.loads rejects
\* is skipped; on another JSON value than an object .get raises
\* AttributeError, which leaves the loop and the function.
RECURSIVE CollectUnspoken(_, _)
CollectUnspoken(vals, acc) ==
    IF vals = <<>> THEN Result("ok", acc)
    ELSE LET n == Head(vals)
         IN  CASE n.kind = "junk" -> CollectUnspoken(Tail(vals), acc)
               [] n.kind = "scalar" -> Result("raise", <<>>)
               [] n.kind = "obj" ->
                    CollectUnspoken(Tail(vals),
                        IF n.spoken = "true" THEN acc ELSE Append(acc, n))

\* _check_notifications up to the list of notifications to speak
\* (PollUnspoken): "nofile" and "undecodable" return early, "raise" is an
\* exception caught by the function's except clause; none yields a record.
PollUnspoken(f) ==
    IF f = NoFile THEN Result("nofile", <<>>)
    ELSE LET rc == ReadContent(f)
         IN  IF rc.err = "undecodable" THEN Result("undecodable", <<>>)
             ELSE IF rc.err # "none" THEN Result("raise", <<>>)
             ELSE CollectUnspoken(LoadLines(SplitLines(rc.chars)), <<>>)

\* The loop over the lines with the match taken on the timestamp alone.
RECURSIVE MarkByTimestamp(_, _, _)
MarkByTimestamp(vals, notification, acc) ==
    IF vals = <<>> THEN Result("ok", acc)
    ELSE LET notif == Head(vals)
         IN  CASE notif.kind = "junk" ->
                    MarkByTimestamp(Tail(vals), notification, acc)
               [] notif.kind = "scalar" -> Result("raise", <<>>)
               [] notif.kind = "obj" ->
                    MarkByTimestamp(Tail(vals), notification,
                        Append(acc,
                            IF notif.timestamp = notification.timestamp
                            THEN [notif EXCEPT !.spoken = "true"]
                            ELSE notif))

\* _update_notification_status, the loop over the lines.
RECURSIVE MarkMatching(_, _, _)
MarkMatching(vals, notification, acc) ==
    IF vals = <<>> THEN Result("ok", acc)
    ELSE LET notif == Head(vals)
         IN  CASE notif.kind = "junk" ->
                    MarkMatching(Tail(vals), notification, acc)
               [] notif.kind = "scalar" -> Result("raise", <<>>)
               [] notif.kind = "obj" ->
                    MarkMatching(Tail(vals), notification,
                        Append(acc,
                            IF SameKey(notif, notification)
                            THEN [notif EXCEPT !.spoken = "true"]
                            ELSE notif))

\* The lines written back: json.dumps(notif) + '\n' each, UTF-8.
RECURSIVE DumpLines(_)
DumpLines(ns) ==
    IF ns = <<>> THEN <<>>
    ELSE JsonDumps(Head(ns)) \o <<Ch.nl>> \o DumpLines(Tail(ns))

\* _update_notification_status up to the write: the notifications to write
\* back, or no write at all (a missing file, an exception, content None).
UpdateRead(f, notification) ==
    IF f = NoFile THEN Result("raise", <<>>)
    ELSE LET rc == ReadContent(f)
         IN  IF rc.err = "undecodable" THEN Result("undecodable", <<>>)
             ELSE IF rc.err # "none" THEN Result("raise", <<>>)
             ELSE MarkMatching(LoadLines(SplitLines(rc.chars)), notification, <<>>)

UpdateWrite(ns) == Utf8Encode(DumpLines(ns))

\* _update_notification_status as one call (MarkSpoken).
MarkSpoken(f, notification) ==
    LET r == UpdateRead(f, notification)
    IN  IF r.status = "ok" THEN UpdateWrite(r.recs) ELSE f

\* _get_last_notification (GetLast): every value json.loads accepts is kept,
\* objects or not; the last one is returned, or None.
RECURSIVE Loaded(_)
Loaded(vals) ==
    IF vals = <<>> THEN <<>>
    ELSE (IF Head(vals).kind = "junk" THEN <<>> ELSE <<Head(vals)>>)
         \o Loaded(Tail(vals))

GetLast(f) ==
    IF f = NoFile THEN Result("none", <<>>)
    ELSE LET rc == ReadContent(f)
         IN  IF rc.err # "none" THEN Result("none", <<>>)
             ELSE LET ns == Loaded(LoadLines(SplitLines(rc.chars)))
                  IN  IF ns = <<>> THEN Result("none", <<>>)
                      ELSE Result("ok", <<ns[Len(ns)]>>)

\* A Clear that would leave an earlier backup in place.
ClearKeepsBackup(f, b) == <<<<>>, IF b = NoFile THEN f ELSE b>>

\* _clear_notifications (Clear): <<store, backup>> afterwards.  An existing
\* store replaces the backup; the store is then created empty.
ClearNotifications(f, b) ==
    IF f # NoFile THEN <<<<>>, f>> ELSE <<<<>>, b>>

-----------------------------------------------------------------------------
(* The store specification: a store file written by a producer in one of   *)
(* the five encodings, then any sequence of the store's operations.        *)

Spokens == {"absent", "false", "true"}
\* Record identities: two share the timestamp, two share the message.
Notifications ==
    {Obj(1, Ch.a, "absent"), Obj(2, Ch.a, "absent"), Obj(1, Ch.eacute, "absent")}

\* A line as a producer writes it: a record (a non-ASCII message written raw),
\* a record between blanks, text that is not JSON, a JSON number.
RecordLine(n) ==
    <<Ch.lbrace, n.timestamp + 48, n.message>>
    \o (CASE n.spoken = "absent" -> <<>>
          [] n.spoken = "true" -> <<Ch.true>>
          [] n.spoken = "false" -> <<Ch.false>>)
    \o <<Ch.rbrace>>

LineTexts ==
    {RecordLine([n EXCEPT !.spoken = s]) : n \in Notifications, s \in Spokens}
    \cup {<<Ch.sp>> \o RecordLine(Obj(1, Ch.a, "false")) \o <<Ch.sp>>}
    \cup {<<Ch.junk>>, <<49>>}

RECURSIVE JoinLines(_)
JoinLines(ls) ==
    IF ls = <<>> THEN <<>> ELSE Head(ls) \o <<Ch.nl>> \o JoinLines(Tail(ls))

LineLists == UNION {[1..k -> LineTexts] : k \in 0..MaxLines}

\* Worker threads: the auto-reading workers, the Speak Live workers and the
\* Play Last Notification threads.  A dead slot is a thread not started or
\* ended.
LoopIds == 1..MaxLoops
LiveIds == (MaxLoops + 1)..(MaxLoops + MaxLive)
LastIds == (MaxLoops + MaxLive + 1)..(MaxLoops + MaxLive + MaxLast)
GenIds == (MaxLoops + MaxLive + MaxLast + 1)..(MaxLoops + MaxLive + MaxLast + MaxGen)
LoadIds == (MaxLoops + MaxLive + MaxLast + MaxGen + 1)
               ..(MaxLoops + MaxLive + MaxLast + MaxGen + MaxLoad)
ThreadIds == LoopIds \cup LiveIds \cup LastIds \cup GenIds \cup LoadIds

Dead == [pc |-> "dead", ns |-> <<>>, out |-> NoFile]
At(pc) == [pc |-> pc, ns |-> <<>>, out |-> NoFile]

\* pygame.mixer.music: a track is loaded and neither stopped nor over
\* (busy), and it is paused.  get_busy() is false while paused.
\* track: what was loaded, a session's temporary file or the generated file.
Silent == [busy |-> FALSE, paused |-> FALSE, track |-> "none"]
Playing == [busy |-> TRUE, paused |-> FALSE, track |-> "temp"]
PlayingFile == [busy |-> TRUE, paused |-> FALSE, track |-> "file"]
GetBusy == music.busy /\ ~music.paused

\* The voices _load_voices finds: the cloud voices, the system voices (one
\* of each kept), and the placeholder it falls back to.
online_voices ==
    <<[name |-> "Google English (US)", id |-> "en", type |-> "online"]>>
\* def _load_voices(self, max_retries=3)
max_retries == 3
system_voices == <<[name |-> "System", id |-> "sys", type |-> "offline"]>>
default_voices ==
    <<[name |-> "Default Voice", id |-> "default", type |-> "offline"]>>

NoOp == [op |-> "init", arg |-> Junk, before |-> NoFile,
         beforeBackup |-> NoFile, result |-> Result("none", <<>>)]

ProgInit ==
    /\ is_speaking_live = FALSE
    /\ stop_speech_flag = FALSE
    /\ is_generating = FALSE
    /\ tts_engine = "pyttsx3"
    /\ voices = online_voices \o system_voices
    /\ gtts_available = TRUE
    /\ combo = Len(voices)
    /\ after_queue = <<>>
    /\ selected_voice_id = voices[1].id
    /\ temps = {}
    /\ current_audio_path = FALSE
    /\ failed = [t \in LoopIds |-> FALSE]
    /\ auto_reading_active = FALSE
    /\ auto_reading_thread = NoThread
    /\ music = Silent
    /\ ui = "idle"
    /\ threads = [t \in ThreadIds |-> Dead]
    /\ skipped = [t \in LoopIds |-> "no"]

NoWritten == [enc |-> "none", lines |-> <<>>]

StoreInit ==
    /\ \/ \E i \in 1..Len(encodings_to_try), ls \in LineLists :
             /\ written = [enc |-> encodings_to_try[i], lines |-> ls]
             /\ file = EncodeWith(encodings_to_try[i], JoinLines(ls))
       \/ written = NoWritten /\ file = NoFile
    /\ backup \in {NoFile, <<Ch.junk, Ch.nl>>}
    /\ lastOp = NoOp
    /\ faults = 0
    /\ ProgInit

Did(op, arg, res) ==
    lastOp' = [op |-> op, arg |-> arg, before |-> file,
               beforeBackup |-> backup, result |-> res]

PollOp ==
    /\ Did("poll", Junk, PollUnspoken(file))
    /\ UNCHANGED <<storeVars, written, progVars>>

MarkOp(n) ==
    /\ file' = MarkSpoken(file, n)
    /\ Did("mark", n, UpdateRead(file, n))
    /\ written' = IF file' = file THEN written ELSE NoWritten
    /\ UNCHANGED <<backup, progVars>>

GetLastOp ==
    /\ Did("last", Junk, GetLast(file))
    /\ UNCHANGED <<storeVars, written, progVars>>

ClearOp ==
    /\ file' = ClearNotifications(file, backup)[1]
    /\ backup' = ClearNotifications(file, backup)[2]
    /\ Did("clear", Junk, Result("ok", <<>>))
    /\ written' = NoWritten
    /\ UNCHANGED progVars

StoreNext ==
    \/ PollOp
    \/ \E n \in Notifications : MarkOp(n)
    \/ GetLastOp
    \/ ClearOp

SpecStore == StoreInit /\ [][StoreNext]_vars

-----------------------------------------------------------------------------
(* The program.  The handlers of the user interface run one at a time on   *)
(* the interface thread; the worker threads run between and during them,   *)
(* one step at a time.  A thread's pc names the step it takes next.        *)

\* The store the program starts on: two records, neither spoken.
InitialStore ==
    Utf8Encode(JoinLines(<<RecordLine(Obj(1, Ch.a, "absent")),
                           RecordLine(Obj(2, Ch.a, "false"))>>))

Init ==
    /\ file = InitialStore
    /\ backup = NoFile
    /\ written = NoWritten
    /\ lastOp = NoOp
    /\ faults = MaxFaults
    /\ ProgInit

\* The same start where no call fails.
AutoInit ==
    /\ file = InitialStore
    /\ backup = NoFile
    /\ written = NoWritten
    /\ lastOp = NoOp
    /\ faults = 0
    /\ ProgInit

Free(ids) == {t \in ids : threads[t].pc = "dead"}
Set(t, r) == threads' = [threads EXCEPT ![t] = r]
Goto(t, pc) == threads' = [threads EXCEPT ![t].pc = pc]

\* The steps of a loop thread between the check that lets a record through
\* and the check after its utterance.
InRecord == {"enter", "synth", "wait", "offline", "utter", "finally"}
\* Where a thread stays for seconds: time.sleep(interval), the cloud
\* request, the wait for the playback, the blocking utterance.
Blocking == {"sleep", "synth", "wait", "utter"}

\* _speak_live: rejected while speaking or generating, or when _read_text
\* raises; otherwise the worker thread is started.
SpeakLive(text_ok) ==
    /\ ui = "idle"
    /\ IF is_speaking_live \/ is_generating \/ ~text_ok
       THEN UNCHANGED vars
       ELSE /\ Free(LiveIds) # {}
            /\ Set(Min(Free(LiveIds)), At("l_start"))
            /\ UNCHANGED <<storeVars, ghostVars, moreVars, flagVars, voiceVars,
                           schedVars, music, ui, skipped>>

\* _skip_speech
SkipSpeech ==
    /\ ui = "idle"
    /\ stop_speech_flag' = TRUE
    /\ is_speaking_live' = FALSE
    /\ music' = IF GetBusy THEN Silent ELSE music
    /\ skipped' = [t \in LoopIds |->
            IF skipped[t] # "no" THEN skipped[t]
            ELSE IF threads[t].pc = "iter" /\ threads[t].ns # <<>> THEN "before"
            ELSE IF threads[t].pc \in InRecord THEN "during"
            ELSE "no"]
    /\ UNCHANGED <<storeVars, ghostVars, moreVars, is_generating, voiceVars, schedVars,
                   ui, threads>>

\* _play_last_notification: nothing to play, or a thread running
\* _speak_text_live on the last notification.
PlayLastNotification ==
    /\ ui = "idle"
    /\ LET r == GetLast(file)
       IN  IF r.status = "none" \/ r.recs[1].kind # "obj"
           THEN UNCHANGED vars
           ELSE /\ Free(LastIds) # {}
                /\ Set(Min(Free(LastIds)), At("enter"))
                /\ UNCHANGED <<storeVars, ghostVars, moreVars, flagVars, voiceVars,
                               schedVars, music, ui, skipped>>

\* _start_auto_reading, past its guard
StartAutoReading ==
    /\ Free(LoopIds) # {}
    /\ auto_reading_active' = TRUE
    /\ auto_reading_thread' = Min(Free(LoopIds))
    /\ Set(Min(Free(LoopIds)), At("while"))

\* _toggle_auto_reading: the checkbox follows auto_reading_active; checked,
\* it starts the worker; unchecked, _stop_auto_reading clears the flag and
\* joins the worker for at most 2 s.
ToggleAutoReading ==
    /\ ui = "idle"
    /\ IF ~auto_reading_active
       THEN StartAutoReading /\ UNCHANGED ui
       ELSE /\ auto_reading_active' = FALSE
            /\ ui' = "join_stop"
            /\ UNCHANGED <<auto_reading_thread, threads>>
    /\ UNCHANGED <<storeVars, ghostVars, moreVars, flagVars, voiceVars, music, skipped>>

\* _update_auto_reading_interval: nothing while stopped; while running,
\* _stop_auto_reading and then _start_auto_reading.
UpdateAutoReadingInterval ==
    /\ ui = "idle"
    /\ IF ~auto_reading_active
       THEN UNCHANGED vars
       ELSE /\ Free(LoopIds) # {}
            /\ auto_reading_active' = FALSE
            /\ ui' = "join_restart"
            /\ UNCHANGED <<storeVars, ghostVars, moreVars, flagVars, voiceVars,
                           auto_reading_thread, music, threads, skipped>>

\* auto_reading_thread.join(timeout=2) returns: the worker has ended, or 2 s
\* have passed with the worker in a step that lasts longer.
JoinReturns ==
    /\ ui \in {"join_stop", "join_restart"}
    /\ threads[auto_reading_thread].pc \in {"dead"} \cup Blocking
    /\ ui' = "idle"
    /\ IF ui = "join_restart"
       THEN StartAutoReading
       ELSE UNCHANGED <<schedVars, threads>>
    /\ UNCHANGED <<storeVars, ghostVars, moreVars, flagVars, voiceVars, music, skipped>>

\* _on_voice_selected
OnVoiceSelected(idx) ==
    /\ ui = "idle"
    /\ IF idx <= Len(voices)
       THEN /\ selected_voice_id' = voices[idx].id
            /\ tts_engine' = voices[idx].type
       ELSE UNCHANGED voiceVars
    /\ UNCHANGED <<storeVars, ghostVars, moreVars, flagVars, schedVars, music, ui,
                   threads, skipped>>

\* The track played to its end: get_busy() turns false.
MusicEnds ==
    /\ GetBusy
    /\ music' = Silent
    /\ UNCHANGED <<storeVars, ghostVars, moreVars, flagVars, voiceVars, schedVars, ui,
                   threads, skipped>>

\* The voice _speak_text_live finds for selected_voice_id, if any.
SelectedVoiceOnline ==
    \E i \in 1..Len(voices) :
        /\ voices[i].id = selected_voice_id
        /\ \A j \in 1..(i - 1) : voices[j].id # selected_voice_id
        /\ voices[i].type = "online"

Unskip(t) ==
    skipped' = IF t \in LoopIds THEN [skipped EXCEPT ![t] = "no"] ELSE skipped

\* What a loop thread's tick has met: the failure of a step (ok false), and
\* nothing once the tick is over.
Met(t, ok) ==
    failed' = IF t \in LoopIds /\ ~ok THEN [failed EXCEPT ![t] = TRUE]
              ELSE failed
TickOver(t) ==
    failed' = IF t \in LoopIds THEN [failed EXCEPT ![t] = FALSE] ELSE failed
\* A call into the network, the audio device or the file system raises only
\* while the environment has a failure left to produce.
Inject(ok) ==
    /\ ok \/ faults > 0
    /\ faults' = IF ok THEN faults ELSE faults - 1

\* The worker written so that a store it cannot read ends it.
LoopTickFatal(t) ==
    /\ threads[t].pc = "while"
    /\ IF ~auto_reading_active
       THEN Set(t, Dead)
       ELSE LET r == PollUnspoken(file)
            IN  IF r.status = "ok" /\ r.recs # <<>>
                THEN Set(t, [pc |-> "iter", ns |-> r.recs, out |-> NoFile])
                ELSE IF r.status = "ok" THEN Set(t, At("sleep"))
                ELSE Set(t, Dead)
    /\ UNCHANGED <<storeVars, ghostVars, moreVars, flagVars, voiceVars, schedVars,
                   music, ui, skipped>>

\* _auto_reading_worker at its while, and _check_notifications up to the
\* list of notifications: the worker ends when auto-reading is off; a missing
\* or undecodable store, an exception or an empty list end the tick.
LoopTick(t) ==
    /\ threads[t].pc = "while"
    /\ IF ~auto_reading_active
       THEN Set(t, Dead)
       ELSE LET r == PollUnspoken(file)
            IN  IF r.status = "ok" /\ r.recs # <<>>
                THEN Set(t, [pc |-> "iter", ns |-> r.recs, out |-> NoFile])
                ELSE Set(t, At("sleep"))
    /\ UNCHANGED <<storeVars, ghostVars, moreVars, flagVars, voiceVars, schedVars,
                   music, ui, skipped>>

\* The head of the for loop written without the test of
\* auto_reading_active.
LoopIterDeaf(t) ==
    /\ threads[t].pc = "iter"
    /\ IF threads[t].ns = <<>> \/ stop_speech_flag
       THEN Set(t, At("sleep")) /\ Unskip(t) /\ TickOver(t)
       ELSE Goto(t, "enter") /\ UNCHANGED <<skipped, failed>>
    /\ UNCHANGED <<storeVars, ghostVars, catalogVars, temps,
                   current_audio_path, faults, flagVars, voiceVars, schedVars, music,
                   ui>>

\* The head of the for loop: break when auto-reading is off or the
\* cancellation flag is set, else speak the next notification.
LoopIter(t) ==
    /\ threads[t].pc = "iter"
    /\ IF threads[t].ns = <<>> \/ ~auto_reading_active \/ stop_speech_flag
       THEN Set(t, At("sleep")) /\ Unskip(t) /\ TickOver(t)
       ELSE Goto(t, "enter") /\ UNCHANGED <<skipped, failed>>
    /\ UNCHANGED <<storeVars, ghostVars, catalogVars, temps,
                   current_audio_path, faults, flagVars, voiceVars, schedVars, music,
                   ui>>

\* _speak_text_live, its first statements: both flags are written, whatever
\* they hold, and the voice is looked up.
SpeakEnter(t) ==
    /\ threads[t].pc = "enter"
    /\ is_speaking_live' = TRUE
    /\ stop_speech_flag' = FALSE
    /\ Goto(t, IF SelectedVoiceOnline THEN "synth" ELSE "offline")
    /\ UNCHANGED <<storeVars, ghostVars, moreVars, is_generating, voiceVars, schedVars,
                   music, ui, skipped>>

\* gTTS(...), tts.save(...), pygame.mixer.music.load and play: the track
\* replaces what was playing, or one of the calls raises.
SpeakSynth(t, ok) ==
    /\ threads[t].pc = "synth"
    /\ IF ok
       THEN music' = Playing /\ Goto(t, "wait")
       ELSE UNCHANGED music /\ Goto(t, "finally")
    /\ temps' = temps \cup {t}
    /\ Met(t, ok)
    /\ Inject(ok)
    /\ UNCHANGED <<storeVars, ghostVars, catalogVars, current_audio_path,
                   flagVars, voiceVars, schedVars, ui, skipped>>

\* The wait for the playback, at the poll that ends it: the music is over,
\* is_speaking_live is false or the cancellation flag is set; with the flag
\* set the music is stopped.
SpeakWait(t) ==
    /\ threads[t].pc = "wait"
    /\ ~(GetBusy /\ is_speaking_live /\ ~stop_speech_flag)
    /\ music' = IF stop_speech_flag THEN Silent ELSE music
    /\ temps' = temps \ {t}
    /\ Goto(t, "finally")
    /\ UNCHANGED <<storeVars, ghostVars, catalogVars, current_audio_path,
                   failed, faults, flagVars, voiceVars, schedVars, ui, skipped>>

\* The pyttsx3 branch: nothing is said with the cancellation flag set;
\* pyttsx3.init may raise.
SpeakOffline(t, ok) ==
    /\ threads[t].pc = "offline"
    /\ Goto(t, IF ~stop_speech_flag /\ ok THEN "utter" ELSE "finally")
    /\ Met(t, stop_speech_flag \/ ok)
    /\ Inject(stop_speech_flag \/ ok)
    /\ UNCHANGED <<storeVars, ghostVars, catalogVars, temps,
                   current_audio_path, flagVars, voiceVars, schedVars, music,
                   ui, skipped>>

\* engine.runAndWait() returns or raises.
SpeakUtter(t) ==
    /\ threads[t].pc = "utter"
    /\ Goto(t, "finally")
    /\ UNCHANGED <<storeVars, ghostVars, moreVars, flagVars, voiceVars, schedVars,
                   music, ui, skipped>>

\* The finally clause of _speak_text_live, and the return to the caller.
SpeakFinally(t) ==
    /\ threads[t].pc = "finally"
    /\ is_speaking_live' = FALSE
    /\ stop_speech_flag' = FALSE
    /\ IF t \in LoopIds THEN Goto(t, "after") ELSE Set(t, Dead)
    /\ UNCHANGED <<storeVars, ghostVars, moreVars, is_generating, voiceVars, schedVars,
                   music, ui, skipped>>

\* The step after the utterance written to pass to the next notification
\* without marking this one.
LoopAfterUnmarked(t) ==
    /\ threads[t].pc = "after"
    /\ IF stop_speech_flag
       THEN Set(t, At("sleep")) /\ Unskip(t) /\ TickOver(t)
       ELSE /\ Set(t, [threads[t] EXCEPT !.pc = "iter", !.ns = Tail(@)])
            /\ UNCHANGED <<skipped, failed>>
    /\ UNCHANGED <<storeVars, ghostVars, catalogVars, temps,
                   current_audio_path, faults, flagVars, voiceVars, schedVars, music,
                   ui>>

\* After the utterance: break when the cancellation flag is set, else mark
\* the notification spoken.
LoopAfter(t) ==
    /\ threads[t].pc = "after"
    /\ IF stop_speech_flag
       THEN Set(t, At("sleep")) /\ Unskip(t) /\ TickOver(t)
       ELSE Goto(t, "mark_read") /\ UNCHANGED <<skipped, failed>>
    /\ UNCHANGED <<storeVars, ghostVars, catalogVars, temps,
                   current_audio_path, faults, flagVars, voiceVars, schedVars, music,
                   ui>>

\* _update_notification_status, the read: the lines to write back.
LoopMarkRead(t) ==
    /\ threads[t].pc = "mark_read"
    /\ LET r == UpdateRead(file, Head(threads[t].ns))
       IN  IF r.status = "ok"
           THEN Set(t, [threads[t] EXCEPT !.pc = "mark_write",
                                          !.out = UpdateWrite(r.recs)])
           ELSE Set(t, [threads[t] EXCEPT !.pc = "iter", !.ns = Tail(@)])
    /\ Met(t, UpdateRead(file, Head(threads[t].ns)).status = "ok")
    /\ UNCHANGED <<storeVars, ghostVars, catalogVars, temps,
                   current_audio_path, faults, flagVars, voiceVars, schedVars, music,
                   ui, skipped>>

\* _update_notification_status, the write, or open(..., 'w') raising and
\* the store left as it is; then the next notification.
LoopMarkWrite(t, ok) ==
    /\ threads[t].pc = "mark_write"
    /\ file' = IF ok THEN threads[t].out ELSE file
    /\ Set(t, [pc |-> "iter", ns |-> Tail(threads[t].ns), out |-> NoFile])
    /\ Met(t, ok)
    /\ Inject(ok)
    /\ UNCHANGED <<backup, ghostVars, catalogVars, temps, current_audio_path,
                   flagVars, voiceVars, schedVars, music, ui, skipped>>

\* time.sleep(interval) is over.
LoopSleep(t) ==
    /\ threads[t].pc = "sleep"
    /\ Goto(t, "while")
    /\ UNCHANGED <<storeVars, ghostVars, moreVars, flagVars, voiceVars, schedVars,
                   music, ui, skipped>>

\* The worker of _speak_live, its first statements.
LiveStart(t) ==
    /\ threads[t].pc = "l_start"
    /\ is_speaking_live' = TRUE
    /\ Goto(t, IF tts_engine = "online" THEN "l_synth" ELSE "l_utter")
    /\ UNCHANGED <<storeVars, ghostVars, moreVars, stop_speech_flag, is_generating,
                   voiceVars, schedVars, music, ui, skipped>>

\* _generate_online_audio, pygame.mixer.music.load and play: the track
\* replaces what was playing; or one of the calls raises and the except
\* clause shows the error.
LiveSynth(t, ok) ==
    /\ threads[t].pc = "l_synth"
    /\ IF ok
       THEN music' = Playing /\ Goto(t, "l_wait")
       ELSE UNCHANGED music /\ Goto(t, "l_finally")
    /\ temps' = temps \cup {t}
    /\ Inject(ok)
    /\ UNCHANGED <<storeVars, ghostVars, catalogVars, current_audio_path,
                   failed, flagVars, voiceVars, schedVars, ui, skipped>>

\* while pygame.mixer.music.get_busy(), at the poll that ends it
LiveWait(t) ==
    /\ threads[t].pc = "l_wait"
    /\ ~GetBusy
    /\ temps' = temps \ {t}
    /\ Goto(t, "l_finally")
    /\ UNCHANGED <<storeVars, ghostVars, catalogVars, current_audio_path,
                   failed, faults, flagVars, voiceVars, schedVars, music, ui,
                   skipped>>

\* pyttsx3.init, say and runAndWait return, or one of them raises and the
\* except clause shows the error.
LiveUtter(t) ==
    /\ threads[t].pc = "l_utter"
    /\ Goto(t, "l_finally")
    /\ UNCHANGED <<storeVars, ghostVars, moreVars, flagVars, voiceVars, schedVars,
                   music, ui, skipped>>

\* The finally clause of the worker: the cancellation flag is left alone.
LiveFinally(t) ==
    /\ threads[t].pc = "l_finally"
    /\ is_speaking_live' = FALSE
    /\ Set(t, Dead)
    /\ UNCHANGED <<storeVars, ghostVars, moreVars, stop_speech_flag, is_generating,
                   voiceVars, schedVars, music, ui, skipped>>

\* One step of _speak_text_live by thread t.
SpeakTextLive(t) ==
    \/ SpeakEnter(t)
    \/ \E ok \in BOOLEAN : SpeakSynth(t, ok)
    \/ SpeakWait(t)
    \/ \E ok \in BOOLEAN : SpeakOffline(t, ok)
    \/ SpeakUtter(t)
    \/ SpeakFinally(t)

\* The buttons of the window that speak and stop, and the threads they start.
Next ==
    \/ \E text_ok \in BOOLEAN : SpeakLive(text_ok)
    \/ SkipSpeech
    \/ PlayLastNotification
    \/ \E idx \in 1..combo : OnVoiceSelected(idx)
    \/ MusicEnds
    \/ \E t \in LastIds : SpeakTextLive(t)
    \/ \E t \in LiveIds :
          \/ LiveStart(t)
          \/ \E ok \in BOOLEAN : LiveSynth(t, ok)
          \/ LiveWait(t)
          \/ LiveUtter(t)
          \/ LiveFinally(t)

Spec == Init /\ [][Next]_vars

\* The auto-reading controls, the auto-reading threads and the Skip button.
AutoNext ==
    \/ ToggleAutoReading
    \/ UpdateAutoReadingInterval
    \/ JoinReturns
    \/ SkipSpeech
    \/ \E idx \in 1..combo : OnVoiceSelected(idx)
    \/ MusicEnds
    \/ \E t \in LoopIds :
          \/ LoopTick(t)
          \/ LoopIter(t)
          \/ LoopAfter(t)
          \/ LoopMarkRead(t)
          \/ \E ok \in BOOLEAN : LoopMarkWrite(t, ok)
          \/ LoopSleep(t)
          \/ SpeakTextLive(t)

SpecAuto == AutoInit /\ [][AutoNext]_vars

-----------------------------------------------------------------------------
(* Generate and the playback controls.  The five buttons are disabled      *)
(* until a Generate has succeeded; the position in the track is not part   *)
(* of the state.                                                           *)

\* _generate_audio: rejected while generating or speaking, or when
\* _read_text raises; otherwise the worker thread is started.
GenerateAudio(text_ok) ==
    /\ ui = "idle"
    /\ IF is_generating \/ is_speaking_live \/ ~text_ok
       THEN UNCHANGED vars
       ELSE /\ Free(GenIds) # {}
            /\ Set(Min(Free(GenIds)), At("g_start"))
            /\ UNCHANGED <<storeVars, ghostVars, moreVars, flagVars, voiceVars,
                           schedVars, music, ui, skipped>>

\* worker: self.is_generating = True
GenStart(t) ==
    /\ threads[t].pc = "g_start"
    /\ is_generating' = TRUE
    /\ Goto(t, "g_synth")
    /\ UNCHANGED <<storeVars, ghostVars, moreVars, is_speaking_live,
                   stop_speech_flag, voiceVars, schedVars, music, ui, skipped>>

\* The synthesis into tts_output.mp3 or .wav by the engine of tts_engine:
\* done, current_audio_path names the file and the controls are enabled;
\* or the call raises.
GenSynth(t, ok) ==
    /\ threads[t].pc = "g_synth"
    /\ current_audio_path' = (current_audio_path \/ ok)
    /\ Inject(ok)
    /\ Goto(t, "g_finally")
    /\ UNCHANGED <<storeVars, ghostVars, catalogVars, temps, failed, flagVars,
                   voiceVars, schedVars, music, ui, skipped>>

\* finally: self.is_generating = False
GenFinally(t) ==
    /\ threads[t].pc = "g_finally"
    /\ is_generating' = FALSE
    /\ Set(t, Dead)
    /\ UNCHANGED <<storeVars, ghostVars, moreVars, is_speaking_live,
                   stop_speech_flag, voiceVars, schedVars, music, ui, skipped>>

GenerateWorker(t) == GenStart(t) \/ (\E ok \in BOOLEAN : GenSynth(t, ok))
                         \/ GenFinally(t)

\* A playback handler ran: which one, and the status it set.
Pressed(op, status) ==
    lastOp' = [NoOp EXCEPT !.op = op, !.result = Result(status, <<>>)]

\* _play_audio: load(current_audio_path) and play(), whatever the mixer
\* was doing.
PlayAudio ==
    /\ ui = "idle"
    /\ current_audio_path
    /\ music' = PlayingFile
    /\ Pressed("play", "Playing audio")
    /\ UNCHANGED <<storeVars, written, moreVars, flagVars, voiceVars,
                   schedVars, ui, threads, skipped>>

\* _pause_audio: pygame.mixer.music.pause()
PauseAudio ==
    /\ ui = "idle"
    /\ current_audio_path
    /\ music' = IF music.busy THEN [music EXCEPT !.paused = TRUE] ELSE music
    /\ Pressed("pause", "Paused.")
    /\ UNCHANGED <<storeVars, written, moreVars, flagVars, voiceVars,
                   schedVars, ui, threads, skipped>>

\* _unpause_audio: pygame.mixer.music.unpause()
UnpauseAudio ==
    /\ ui = "idle"
    /\ current_audio_path
    /\ music' = IF music.busy THEN [music EXCEPT !.paused = FALSE] ELSE music
    /\ Pressed("unpause", "Playing")
    /\ UNCHANGED <<storeVars, written, moreVars, flagVars, voiceVars,
                   schedVars, ui, threads, skipped>>

\* _stop_audio: pygame.mixer.music.stop()
StopAudio ==
    /\ ui = "idle"
    /\ current_audio_path
    /\ music' = Silent
    /\ Pressed("stop", "Stopped.")
    /\ UNCHANGED <<storeVars, written, moreVars, flagVars, voiceVars,
                   schedVars, ui, threads, skipped>>

\* _rewind_audio: pygame.mixer.music.rewind()
RewindAudio ==
    /\ ui = "idle"
    /\ current_audio_path
    /\ UNCHANGED music
    /\ Pressed("rewind", "Rewound to start.")
    /\ UNCHANGED <<storeVars, written, moreVars, flagVars, voiceVars,
                   schedVars, ui, threads, skipped>>

PlaybackNext ==
    \/ \E text_ok \in BOOLEAN : GenerateAudio(text_ok)
    \/ \E t \in GenIds : GenerateWorker(t)
    \/ PlayAudio
    \/ PauseAudio
    \/ UnpauseAudio
    \/ StopAudio
    \/ RewindAudio
    \/ MusicEnds
    \/ \E idx \in 1..combo : OnVoiceSelected(idx)
    \/ PlayLastNotification
    \/ \E t \in LastIds : SpeakTextLive(t)

SpecPlayback == Init /\ [][PlaybackNext]_vars

-----------------------------------------------------------------------------
(* One scheduler loop over stores it can and cannot read, with a call that *)
(* fails.                                                                  *)

\* A store of one unspoken record.
StopStore == Utf8Encode(RecordLine(Obj(1, Ch.a, "absent")))

\* The stores of a tick: two unspoken records, no file, bytes that no
\* encoding of the list takes without an exception, and one record.
TickStores == {InitialStore, NoFile, <<Ch.eacute, Ch.a>>, StopStore}

\* Auto-reading was switched on: _start_auto_reading has set the flag and
\* started the worker.
TickInit ==
    /\ file \in TickStores
    /\ backup = NoFile
    /\ written = NoWritten
    /\ lastOp = NoOp
    /\ faults \in {0, MaxFaults}
    /\ is_speaking_live = FALSE
    /\ stop_speech_flag = FALSE
    /\ is_generating = FALSE
    /\ tts_engine = "pyttsx3"
    /\ voices = online_voices \o system_voices
    /\ gtts_available = TRUE
    /\ combo = Len(voices)
    /\ after_queue = <<>>
    /\ selected_voice_id \in {voices[i].id : i \in 1..Len(voices)}
    /\ temps = {}
    /\ current_audio_path = FALSE
    /\ failed = [t \in LoopIds |-> FALSE]
    /\ auto_reading_active = TRUE
    /\ auto_reading_thread = Min(LoopIds)
    /\ music = Silent
    /\ ui = "idle"
    /\ threads = [t \in ThreadIds |->
                      IF t = Min(LoopIds) THEN At("while") ELSE Dead]
    /\ skipped = [t \in LoopIds |-> "no"]

TickNext ==
    \/ SkipSpeech
    \/ MusicEnds
    \/ \E t \in LoopIds :
          \/ LoopTick(t)
          \/ LoopIter(t)
          \/ LoopAfter(t)
          \/ LoopMarkRead(t)
          \/ \E ok \in BOOLEAN : LoopMarkWrite(t, ok)
          \/ LoopSleep(t)
          \/ SpeakTextLive(t)

SpecTick == TickInit /\ [][TickNext]_vars

\* The scheduler switched off and on while its loop runs.  The worker
\* threads are scheduled and every playback and utterance comes to its end.
StopNext ==
    \/ ToggleAutoReading
    \/ JoinReturns
    \/ MusicEnds
    \/ \E t \in LoopIds :
          \/ LoopTick(t)
          \/ LoopIter(t)
          \/ LoopAfter(t)
          \/ LoopMarkRead(t)
          \/ \E ok \in BOOLEAN : LoopMarkWrite(t, ok)
          \/ LoopSleep(t)
          \/ SpeakTextLive(t)

\* The steps of a loop thread that do not read the store.
LoopStep(t) ==
    \/ LoopIter(t)
    \/ LoopAfter(t)
    \/ \E ok \in BOOLEAN : LoopMarkWrite(t, ok)
    \/ LoopSleep(t)
    \/ SpeakTextLive(t)

\* The two steps that read the store are enabled exactly at their pc and
\* leave it, so weak fairness of each is that the thread is again and
\* again away from that pc.
ReadsFair(t) ==
    /\ []<>(threads[t].pc # "while")
    /\ []<>(threads[t].pc # "mark_read")

\* Auto-reading switched on over that store, where no call fails.
StopInit ==
    /\ TickInit
    /\ file = StopStore
    /\ faults = 0

SpecStop ==
    /\ StopInit
    /\ [][StopNext]_vars
    /\ WF_vars(MusicEnds)
    /\ \A t \in LoopIds : WF_vars(LoopStep(t)) /\ ReadsFair(t)

\* Auto-reading switched on over a store of one or two unspoken records,
\* where no call fails.
SkipInit ==
    /\ TickInit
    /\ file \in {StopStore, InitialStore}
    /\ faults = 0

\* Skip pressed at any moment while the scheduler is left running, under the
\* same scheduling.
SpecSkip ==
    /\ SkipInit
    /\ [][TickNext]_vars
    /\ WF_vars(MusicEnds)
    /\ \A t \in LoopIds : WF_vars(LoopStep(t)) /\ ReadsFair(t)

-----------------------------------------------------------------------------
(* The text handed to _speak_text_live for a record, at its two call       *)
(* sites.  Texts are sequences of code points.                             *)

LogUpdate == <<76, 111, 103, 32, 117, 112, 100, 97, 116, 101, 58, 32>>
EmailPrefix == <<69, 109, 97, 105, 108, 58, 32>>
NotificationPrefix ==
    <<78, 111, 116, 105, 102, 105, 99, 97, 116, 105, 111, 110, 58, 32>>
LogColon == <<108, 111, 103, 58>>
Email == <<101, 109, 97, 105, 108>>
Unknown == <<117, 110, 107, 110, 111, 119, 110>>

\* a record without the key 'source'
NoSource == <<-1>>

\* str.startswith
StartsWith(str, p) == Len(str) >= Len(p) /\ SubSeq(str, 1, Len(p)) = p

\* notification.get('source', 'unknown')
GetSource(n) == IF n.source = NoSource THEN Unknown ELSE n.source

\* The mapping with the test for email taken as a test of the beginning.
EmailByBeginning(n) ==
    LET source == GetSource(n)
        prefix == IF StartsWith(source, LogColon) THEN LogUpdate
                  ELSE IF StartsWith(source, Email) THEN EmailPrefix
                  ELSE NotificationPrefix
    IN  prefix \o n.message

\* _check_notifications: full_message for one notification of the loop
CheckFullMessage(n) ==
    LET source == GetSource(n)
        prefix == IF StartsWith(source, LogColon) THEN LogUpdate
                  ELSE IF source = Email THEN EmailPrefix
                  ELSE NotificationPrefix
    IN  prefix \o n.message

\* _play_last_notification: full_message for the last notification
LastFullMessage(n) ==
    LET source == GetSource(n)
        prefix == IF StartsWith(source, LogColon) THEN LogUpdate
                  ELSE IF source = Email THEN EmailPrefix
                  ELSE NotificationPrefix
    IN  prefix \o n.message

RECURSIVE Words(_, _)
Words(S, n) ==
    IF n = 0 THEN {<<>>}
    ELSE Words(S, n - 1) \cup
         {Append(w, c) : w \in Words(S, n - 1), c \in S}

\* The sources drawn: the two the code tests for, near misses of them and
\* others, each alone and followed by more text; and no source at all.
Stems == {<<>>, LogColon, SubSeq(LogColon, 1, 3), <<76, 111, 103, 58>>,
          Email, <<69, 109, 97, 105, 108>>, Unknown, <<115, 109, 115>>}
Tails == {<<>>, <<Ch.a>>, LogColon, Email}
Sources == {p \o q : p \in Stems, q \in Tails} \cup {NoSource}
Messages == Words({Ch.a, Ch.b}, MaxMessage)

TextInit ==
    /\ file = NoFile
    /\ backup = NoFile
    /\ written = NoWritten
    /\ \E src \in Sources, msg \in Messages :
          lastOp = [NoOp EXCEPT !.arg = [source |-> src, message |-> msg]]
    /\ faults = 0
    /\ ProgInit

\* The loop of _check_notifications composes the text of the record.
LoopText ==
    /\ Did("loop_text", lastOp.arg, CheckFullMessage(lastOp.arg))
    /\ UNCHANGED <<storeVars, written, progVars>>

\* _play_last_notification composes the text of the record.
LastText ==
    /\ Did("last_text", lastOp.arg, LastFullMessage(lastOp.arg))
    /\ UNCHANGED <<storeVars, written, progVars>>

TextNext == LoopText \/ LastText

SpecText == TextInit /\ [][TextNext]_vars

-----------------------------------------------------------------------------
(* The voice catalog: _load_voices on its thread, the callback it leaves   *)
(* for the interface thread, and the two handlers that read the catalog.  *)

\* for attempt in range(max_retries): where the thread is in the loop
TryPcs == <<"v_try1", "v_try2", "v_try3">>
\* What one attempt on pyttsx3 comes to: init or getProperty raises, the
\* engine has no usable voice, it has one, or it has one and engine.stop()
\* raises after the voice was appended.
TryOutcomes == {"raise", "none", "found", "found_raise"}

Populate(n) == [kind |-> "populate", n |-> n]
ErrorBox == [kind |-> "error", n |-> 0]

\* _refresh_voices: one more _load_voices thread
RefreshVoices ==
    /\ ui = "idle"
    /\ Free(LoadIds) # {}
    /\ Len(after_queue) < MaxQueue
    /\ Set(Min(Free(LoadIds)), At("v_clear"))
    /\ UNCHANGED <<storeVars, ghostVars, moreVars, flagVars, voiceVars,
                   schedVars, music, ui, skipped>>

\* voices_loaded = False; self.voices = []
LoadClear(t) ==
    /\ threads[t].pc = "v_clear"
    /\ voices' = <<>>
    /\ Goto(t, "v_online")
    /\ UNCHANGED <<storeVars, ghostVars, gtts_available, combo, after_queue,
                   temps, current_audio_path, failed, faults, flagVars,
                   voiceVars, schedVars, music, ui, skipped>>

\* if GTTS_AVAILABLE: self.voices.extend(online_voices)
LoadOnline(t) ==
    /\ threads[t].pc = "v_online"
    /\ voices' = IF gtts_available THEN voices \o online_voices ELSE voices
    /\ Goto(t, TryPcs[1])
    /\ UNCHANGED <<storeVars, ghostVars, gtts_available, combo, after_queue,
                   temps, current_audio_path, failed, faults, flagVars,
                   voiceVars, schedVars, music, ui, skipped>>

\* The attempt written so that an exception on the last attempt always
\* sets the placeholder.
LoadTryPlaceholder(t, a, outcome) ==
    /\ threads[t].pc = TryPcs[a]
    /\ CASE outcome = "found" ->
              /\ voices' = voices \o system_voices
              /\ Goto(t, "v_loaded")
         [] outcome = "none" ->
              /\ UNCHANGED voices
              /\ Goto(t, IF a < max_retries THEN TryPcs[a + 1]
                         ELSE "v_exhausted")
         [] outcome = "raise" ->
              IF a < max_retries
              THEN UNCHANGED voices /\ Goto(t, TryPcs[a + 1])
              ELSE voices' = default_voices /\ Goto(t, "v_loaded")
         [] outcome = "found_raise" ->
              /\ voices' = voices \o system_voices
              /\ Goto(t, IF a < max_retries THEN TryPcs[a + 1]
                         ELSE "v_loaded")
    /\ UNCHANGED <<storeVars, ghostVars, gtts_available, combo, after_queue,
                   temps, current_audio_path, failed, faults, flagVars,
                   voiceVars, schedVars, music, ui, skipped>>

\* One attempt of the loop.  A voice found is appended and the loop left;
\* with none the loop goes on, and falls out after the last attempt; an
\* exception is retried, and on the last attempt keeps the catalog when it
\* has a voice and sets the placeholder when it has none.
LoadTry(t, a, outcome) ==
    /\ threads[t].pc = TryPcs[a]
    /\ CASE outcome = "found" ->
              /\ voices' = voices \o system_voices
              /\ Goto(t, "v_loaded")
         [] outcome = "none" ->
              /\ UNCHANGED voices
              /\ Goto(t, IF a < max_retries THEN TryPcs[a + 1]
                         ELSE "v_exhausted")
         [] outcome = "raise" ->
              IF a < max_retries
              THEN UNCHANGED voices /\ Goto(t, TryPcs[a + 1])
              ELSE /\ voices' = IF voices # <<>> THEN voices
                                ELSE default_voices
                   /\ Goto(t, "v_loaded")
         [] outcome = "found_raise" ->
              /\ voices' = voices \o system_voices
              /\ Goto(t, IF a < max_retries THEN TryPcs[a + 1]
                         ELSE "v_loaded")
    /\ UNCHANGED <<storeVars, ghostVars, gtts_available, combo, after_queue,
                   temps, current_audio_path, failed, faults, flagVars,
                   voiceVars, schedVars, music, ui, skipped>>

\* if voices_loaded and self.voices: the names go to the interface thread
\* with master.after; otherwise the error box does.  voices_loaded is true
\* after a break of the loop and after the cloud voices were added.
LoadDone(t) ==
    /\ threads[t].pc \in {"v_loaded", "v_exhausted"}
    /\ LET voices_loaded == threads[t].pc = "v_loaded" \/ gtts_available
       IN  after_queue' = Append(after_queue,
                                 IF voices_loaded /\ voices # <<>>
                                 THEN Populate(Len(voices)) ELSE ErrorBox)
    /\ Set(t, Dead)
    /\ UNCHANGED <<storeVars, ghostVars, voices, gtts_available, combo,
                   temps, current_audio_path, failed, faults, flagVars,
                   voiceVars, schedVars, music, ui, skipped>>

\* The callback on the interface thread: _populate_voice_combo(names) sets
\* the entries and selects the first voice of the catalog as it is now
\* (an IndexError when it is empty, which Tk reports and drops); the error
\* box changes nothing.
PopulateVoiceCombo ==
    /\ ui = "idle"
    /\ after_queue # <<>>
    /\ after_queue' = Tail(after_queue)
    /\ IF Head(after_queue).kind = "populate"
       THEN /\ combo' = Head(after_queue).n
            /\ selected_voice_id' = IF voices # <<>> THEN voices[1].id
                                    ELSE selected_voice_id
       ELSE UNCHANGED <<combo, selected_voice_id>>
    /\ UNCHANGED <<storeVars, ghostVars, voices, gtts_available, temps,
                   current_audio_path, failed, faults, flagVars, tts_engine,
                   schedVars, music, ui, threads, skipped>>

\* The state __init__ leaves: no voice, nothing selected, the first
\* _load_voices thread started; gTTS was importable or it was not.
VoicesInit ==
    /\ file = InitialStore
    /\ backup = NoFile
    /\ written = NoWritten
    /\ lastOp = NoOp
    /\ is_speaking_live = FALSE
    /\ stop_speech_flag = FALSE
    /\ is_generating = FALSE
    /\ tts_engine = "pyttsx3"
    /\ voices = <<>>
    /\ gtts_available \in BOOLEAN
    /\ combo = 0
    /\ after_queue = <<>>
    /\ selected_voice_id = "None"
    /\ temps = {}
    /\ current_audio_path = FALSE
    /\ failed = [t \in LoopIds |-> FALSE]
    /\ faults = 0
    /\ auto_reading_active = FALSE
    /\ auto_reading_thread = NoThread
    /\ music = Silent
    /\ ui = "idle"
    /\ threads = [t \in ThreadIds |->
                      IF t = Min(LoadIds) THEN At("v_clear") ELSE Dead]
    /\ skipped = [t \in LoopIds |-> "no"]

VoicesNext ==
    \/ RefreshVoices
    \/ PopulateVoiceCombo
    \/ \E idx \in 1..combo : OnVoiceSelected(idx)
    \/ \E t \in LoadIds :
          \/ LoadClear(t)
          \/ LoadOnline(t)
          \/ \E a \in 1..max_retries, outcome \in TryOutcomes :
                LoadTry(t, a, outcome)
          \/ LoadDone(t)

SpecVoices == VoicesInit /\ [][VoicesNext]_vars

\* The first Load alone, no Refresh pressed, while the last notification may
\* be played.  The loader thread is scheduled and each of its calls returns
\* or raises.
LoadStep(t) ==
    \/ LoadClear(t)
    \/ LoadOnline(t)
    \/ \E a \in 1..max_retries, outcome \in TryOutcomes :
          LoadTry(t, a, outcome)
    \/ LoadDone(t)

LoadNext ==
    \/ PopulateVoiceCombo
    \/ \E idx \in 1..combo : OnVoiceSelected(idx)
    \/ PlayLastNotification
    \/ MusicEnds
    \/ \E t \in LastIds : SpeakTextLive(t)
    \/ \E t \in LoadIds : LoadStep(t)

SpecLoad ==
    /\ VoicesInit
    /\ [][LoadNext]_vars
    /\ \A t \in LoadIds : WF_vars(LoadStep(t))

-----------------------------------------------------------------------------
(* Properties of the store.                                                *)

RECURSIVE Objects(_)
Objects(vals) ==
    IF vals = <<>> THEN <<>>
    ELSE (IF Head(vals).kind = "obj" THEN <<Head(vals)>> ELSE <<>>)
         \o Objects(Tail(vals))

Unspoken(n) == n.spoken # "true"

\* The well-formed records of a store file, as its reader decodes it.
StoredRecords(f) ==
    IF f = NoFile \/ ReadContent(f).err # "none" THEN <<>>
    ELSE Objects(LoadLines(SplitLines(ReadContent(f).chars)))

\* The records a producer wrote.
WrittenRecords == Objects([i \in 1..Len(written.lines) |-> JsonLoads(Strip(written.lines[i]))])

Range(s) == {s[i] : i \in 1..Len(s)}

\* C5: MarkSpoken(r) twice leaves the store as MarkSpoken(r) once does: the
\* second call changes nothing, neither call changes the number of stored
\* records, and every stored record with r's (timestamp, message) has
\* spoken = true.
C5_MarkSpokenIdempotent ==
    lastOp.op = "mark" =>
        /\ MarkSpoken(file, lastOp.arg) = file
        /\ Len(StoredRecords(file)) = Len(StoredRecords(lastOp.before))
        /\ \A n \in Range(StoredRecords(file)) :
               SameKey(n, lastOp.arg) => n.spoken = "true"

\* The part of C5 that holds on every store: a second call changes nothing
\* and the number of stored records stays.
C5_SecondCallChangesNothing ==
    lastOp.op = "mark" =>
        /\ MarkSpoken(file, lastOp.arg) = file
        /\ Len(StoredRecords(file)) = Len(StoredRecords(lastOp.before))

\* C6: after Clear on an existing store the store exists and is empty,
\* PollUnspoken returns the empty list, and the backup holds exactly the
\* bytes the store held before, whatever the backup held.
C6_ClearRoundTrip ==
    (lastOp.op = "clear" /\ lastOp.before # NoFile) =>
        /\ file = <<>>
        /\ PollUnspoken(file) = Result("ok", <<>>)
        /\ backup = lastOp.before

\* C6 witness: a store with content was cleared over an earlier, different
\* backup.
C6_Witness ==
    /\ lastOp.op = "clear"
    /\ lastOp.before \notin {NoFile, <<>>}
    /\ lastOp.beforeBackup \notin {NoFile, lastOp.before}

\* C7: a line that is no structured record never aborts the read: whenever
\* the store decodes, PollUnspoken raises nothing and returns every
\* well-formed unspoken record of the file.
C7_MalformedLineDropped ==
    (/\ lastOp.op = "poll"
     /\ lastOp.before # NoFile
     /\ ReadContent(lastOp.before).err = "none") =>
        /\ lastOp.result.status = "ok"
        /\ \A n \in Range(StoredRecords(lastOp.before)) :
               Unspoken(n) => n \in Range(lastOp.result.recs)

\* C8: PollUnspoken returns exactly the well-formed records of the file whose
\* spoken is false or absent, each once and in file order.
C8_PollReturnsUnspokenInOrder ==
    lastOp.op = "poll" =>
        lastOp.result.recs = SelectSeq(StoredRecords(lastOp.before), Unspoken)

\* The part of C8 that holds on every store: no record with spoken = true is
\* returned, and a read that ends normally returns the unspoken records in
\* file order.
C8_NeverReturnsSpoken ==
    lastOp.op = "poll" =>
        /\ \A n \in Range(lastOp.result.recs) : Unspoken(n)
        /\ (lastOp.result.status = "ok" =>
               lastOp.result.recs
                   = SelectSeq(StoredRecords(lastOp.before), Unspoken))

\* C9: a store of records written in any of the five encodings is recovered:
\* PollUnspoken on it returns exactly the written (unspoken) records.
C9_EveryEncodingRecovered ==
    (/\ lastOp.op = "poll"
     /\ written.enc # "none"
     /\ Len(WrittenRecords) = Len(written.lines)) =>
        lastOp.result = Result("ok", SelectSeq(WrittenRecords, Unspoken))

\* The part of C9 that holds: a store written as UTF-8 or as UTF-16 with a
\* byte order mark is recovered.
C9_Utf8AndBomRecovered ==
    (/\ lastOp.op = "poll"
     /\ written.enc \in {"utf-8", "utf-16"}
     /\ Len(WrittenRecords) = Len(written.lines)) =>
        lastOp.result = Result("ok", SelectSeq(WrittenRecords, Unspoken))

-----------------------------------------------------------------------------
(* Properties of the speech sessions and of the auto-reading.              *)

\* Where a thread is synthesizing or playing an utterance.
InSession == {"synth", "wait", "utter", "l_synth", "l_wait", "l_utter"}

\* C1: across every interleaving of Speak Live, Play Last Notification, the
\* auto-read loop's utterances and Skip, at most one speech session is
\* between its start and its end (synthesizing or playing) at any time.
C1_AtMostOneSession ==
    Cardinality({t \in ThreadIds : threads[t].pc \in InSession}) <= 1

\* C2: once Skip has set the cancellation flag while the auto-read loop is
\* speaking a record or is about to speak the next one, the loop does not
\* go on to mark that record spoken and starts no other _speak_text_live
\* call before it leaves the tick.
C2_SkipEndsTick ==
    [][\A t \in LoopIds :
          skipped[t] # "no" =>
              /\ threads'[t].pc \notin {"mark_read", "mark_write"}
              /\ threads[t].pc = "iter" => threads'[t].pc # "enter"]_vars

\* C3: Speak invoked while a session is non-Idle (is_speaking_live set)
\* changes nothing: through _speak_live no worker is started; through
\* _speak_text_live the call returns with the busy flag, the cancellation
\* flag and the audio device as they were, and starts no synthesis.
C3_SpeakWhileBusyIsNoOp ==
    [][is_speaking_live =>
          /\ \A t \in LiveIds :
                threads[t].pc = "dead" => threads'[t].pc = "dead"
          /\ \A t \in LoopIds \cup LastIds :
                threads[t].pc = "enter" /\ threads'[t].pc # "enter" =>
                    /\ UNCHANGED <<is_speaking_live, stop_speech_flag, music>>
                    /\ threads'[t].pc \in {"dead", "after"}]_vars

\* The spoken field of the stored record with n's (timestamp, message), per
\* stored record with that key.
SpokenOf(f, n) ==
    {r.spoken : r \in {x \in Range(StoredRecords(f)) : SameKey(x, n)}}

\* C4: for every record identity that remains in the store, no step of the
\* store's readers and writers or of the scheduler takes its spoken field
\* from true back to false or absent (the model has no Clear in these steps).
C4_SpokenMonotonic ==
    [][file' # file =>
          \A n \in Range(StoredRecords(file)) :
              (n.spoken = "true" /\ SpokenOf(file', n) # {}) =>
                  SpokenOf(file', n) = {"true"}]_vars

\* C10: when an accepted Speak ends, whatever its outcome, the session is
\* reset to Idle: is_speaking_live is false and the cancellation flag is
\* cleared.
C10_SpeakEndsIdle ==
    [][\A t \in ThreadIds :
          (/\ threads[t].pc \in {"finally", "l_finally"}
           /\ threads'[t].pc \notin {"finally", "l_finally"}) =>
              (~is_speaking_live' /\ ~stop_speech_flag')]_vars

\* C11: once a cloud-voice Speak is past its playback, on every exit path
\* (completion, cancellation, a failure of the synthesis, of the load or of
\* the play), the temporary audio file it created is removed.
C11_TempRemovedAtSessionEnd ==
    \A t \in ThreadIds :
        threads[t].pc \in {"finally", "l_finally", "dead"} => t \notin temps

\* The loads that no other load runs beside.
AloneAtEnd ==
    {t \in LoadIds : /\ threads[t].pc \in {"v_loaded", "v_exhausted"}
                     /\ \A u \in LoadIds \ {t} : threads[u].pc = "dead"}

\* C12: when a Load has been through both backends, the catalog is not
\* empty; and when neither backend gave a voice (gTTS not importable, the
\* local engine raising or without a usable voice on every attempt) the
\* catalog is exactly the placeholder voice.
C12_CatalogNeverEmptyAfterLoad ==
    AloneAtEnd # {} =>
        /\ voices # <<>>
        /\ (~gtts_available /\ \A i \in 1..Len(voices) :
                                   voices[i] # system_voices[1])
               => voices = default_voices

\* The catalogs a Load can end with.
Catalogs ==
    {online_voices \o system_voices, online_voices, system_voices,
     default_voices}

\* C13: once a catalog has been shown, what a reader of self.voices finds
\* at any moment, a Refresh running or not, is a whole catalog and never an
\* empty or half-built list.
C13_ReadersSeeWholeCatalog ==
    combo > 0 => voices \in Catalogs

\* The prefix the specification gives a source: "Log update: " when it
\* begins with "log:", "Email: " when it is exactly "email", and
\* "Notification: " for every other source and for none.
PrefixFor(src) ==
    IF src # NoSource /\ Len(src) >= 4 /\ SubSeq(src, 1, 4) = LogColon
    THEN LogUpdate
    ELSE IF src = Email THEN EmailPrefix
    ELSE NotificationPrefix

\* C14: the text spoken for a record is the prefix of its source followed
\* by its message, and the scheduler loop and Play Last Notification compose
\* the same text for the same record.
C14_SpokenTextIsPrefixAndMessage ==
    /\ lastOp.op \in {"loop_text", "last_text"} =>
           lastOp.result = PrefixFor(lastOp.arg.source) \o lastOp.arg.message
    /\ lastOp.op = "init" /\ lastOp.arg # Junk =>
           CheckFullMessage(lastOp.arg) = LastFullMessage(lastOp.arg)

\* A record whose source is "email" followed by more text was composed by
\* the loop, and one from a log by Play Last Notification.
C14_Witness ==
    /\ lastOp.op = "loop_text"
    /\ lastOp.arg.source = Email \o LogColon
    /\ lastOp.arg.message # <<>>
    /\ lastOp.result = NotificationPrefix \o lastOp.arg.message

\* C15 as stated: after a step of a tick has failed (the synthesis, the
\* read or the rewrite of the store), the tick takes up no further record.
C15_FailureEndsTick ==
    [][\A t \in LoopIds :
          (failed[t] /\ threads[t].pc = "iter") =>
              threads'[t].pc # "enter"]_vars

\* C15, amended: no failure inside a tick stops the scheduler (the flag
\* stays set and the worker alive); a store that is missing or cannot be
\* decoded gives the tick no record and the worker goes to its sleep; after
\* the sleep the worker polls again; and after a synthesis or a rewrite has
\* failed the tick goes on with the records that remain.
C15_FailureNeverStopsScheduler ==
    /\ [](auto_reading_active /\ threads[auto_reading_thread].pc # "dead")
    /\ [][\A t \in LoopIds :
             (threads'[t] # threads[t]) =>
                 /\ (threads[t].pc = "while"
                       /\ PollUnspoken(file).status # "ok")
                        => (threads'[t].pc = "sleep" /\ file' = file)
                 /\ threads[t].pc = "sleep" => threads'[t].pc = "while"
                 /\ (failed[t] /\ threads[t].pc = "iter"
                       /\ threads[t].ns # <<>> /\ ~stop_speech_flag)
                        => threads'[t].pc = "enter"]_vars

\* A synthesis or a rewrite has failed in this tick and the worker is
\* speaking the next record.
C15_Witness ==
    \E t \in LoopIds :
        failed[t] /\ threads[t].pc = "enter" /\ auto_reading_active

\* C16: after any sequence of Start, Stop and interval changes, at most one
\* scheduler loop is executing: a change of the interval, or a Stop and a
\* Start, never leaves the earlier worker alive beside the new one.
C16_AtMostOneLoop ==
    Cardinality({t \in LoopIds : threads[t].pc # "dead"}) <= 1

\* C17: after a Stop that no Start follows, every scheduler loop comes to
\* observe it and exits; and a loop that observes the Stopped state, at the
\* head of its for loop or at its while, takes up no record (so it starts
\* no Speak and marks nothing) and goes to its exit.
C17_StopIsObserved ==
    /\ (~auto_reading_active) ~>
           (auto_reading_active \/ \A t \in LoopIds : threads[t].pc = "dead")
    /\ [][\A t \in LoopIds :
             (~auto_reading_active /\ threads'[t] # threads[t]) =>
                 /\ threads[t].pc = "iter" => threads'[t].pc = "sleep"
                 /\ threads[t].pc = "sleep" => threads'[t].pc = "while"
                 /\ threads[t].pc = "while" => threads'[t].pc = "dead"]_vars

\* The scheduler is stopped, its loop has exited, and a record it did not
\* take up is still unspoken in the store.
C17_Witness ==
    /\ ~auto_reading_active
    /\ \A t \in LoopIds : threads[t].pc = "dead"
    /\ ui = "idle"
    /\ PollUnspoken(file).recs # <<>>

\* C18: a synthesis goes to the backend of the voice that is selected: the
\* worker of Speak Live takes the cloud path if and only if the selected
\* voice is a cloud voice, whatever loads, refreshes and selections came
\* before.
C18_BackendOfSelectedVoice ==
    [][\A t \in LiveIds :
          (threads[t].pc = "l_start" /\ threads'[t].pc # "l_start") =>
              (threads'[t].pc = "l_synth" <=> SelectedVoiceOnline)]_vars

\* The states of the playback controller, read off the mixer and
\* current_audio_path: never played or played to the end or stopped
\* (Loaded, Stopped), playing, paused.
PlaybackPlaying == music.busy /\ ~music.paused
PlaybackPaused == music.busy /\ music.paused
PlaybackAtRest == ~music.busy

\* C19: a playback operation pressed outside its source states changes
\* nothing: Play acts only from Loaded or Stopped, Pause only from Playing,
\* Unpause only from Paused, Stop and Rewind only from Playing or Paused.
C19_OutOfStateIsNoOp ==
    [][(lastOp' # lastOp) =>
          /\ (lastOp'.op = "play" /\ ~PlaybackAtRest) => music' = music
          /\ (lastOp'.op = "pause" /\ ~PlaybackPlaying) => music' = music
          /\ (lastOp'.op = "unpause" /\ ~PlaybackPaused) => music' = music
          /\ (lastOp'.op \in {"stop", "rewind"} /\ PlaybackAtRest) =>
                 music' = music]_vars

\* C20: while a cloud-voice session is in the wait for its playback, no
\* press of a playback control changes what the mixer plays: the session's
\* track is not loaded over, paused or stopped.
C20_ControlsLeaveSessionAudio ==
    [][(/\ lastOp'.op \in {"play", "pause", "unpause", "stop", "rewind"}
        /\ \E t \in ThreadIds : threads[t].pc \in {"wait", "l_wait"}
        /\ music = Playing) => music' = music]_vars

\* C21: at the end of a Load no local voice stands before a cloud voice in
\* the catalog and no voice stands in it twice, whatever the number of
\* attempts on the local engine.
C21_CloudFirstEachOnce ==
    AloneAtEnd # {} =>
        \A i, j \in 1..Len(voices) :
            i < j => /\ voices[i] # voices[j]
                     /\ ~(voices[i].type = "offline"
                           /\ voices[j].type = "online")

\* C22: GetLast gives the last well-formed record of the store as its
\* reader decodes it, spoken or not, and none when the file is absent, empty
\* or without such a record; and it leaves the store as it was.
C22_GetLastIsLastRecord ==
    lastOp.op = "last" =>
        /\ file = lastOp.before /\ backup = lastOp.beforeBackup
        /\ (lastOp.before = NoFile \/ ReadContent(lastOp.before).err = "none")
              => LET rs == StoredRecords(lastOp.before)
                 IN  lastOp.result = IF rs = <<>> THEN Result("none", <<>>)
                                     ELSE Result("ok", <<rs[Len(rs)]>>)

\* C23: MarkSpoken(r) leaves as many records in the store as it found, in
\* the same order and with the same timestamp and message each, and the
\* spoken field differs only on records with r's timestamp and message,
\* where it is true.
C23_MarkSpokenFrame ==
    lastOp.op = "mark" =>
        LET b == StoredRecords(lastOp.before)
            a == StoredRecords(file)
        IN  /\ Len(a) = Len(b)
            /\ \A i \in 1..Len(b) :
                  /\ a[i].timestamp = b[i].timestamp
                  /\ a[i].message = b[i].message
                  /\ a[i].spoken # b[i].spoken =>
                        (SameKey(b[i], lastOp.arg) /\ a[i].spoken = "true")

\* A MarkSpoken has rewritten a store of two records that share the
\* timestamp: the one with r's message went to spoken, the other stayed.
C23_Witness ==
    /\ lastOp.op = "mark"
    /\ file # lastOp.before
    /\ LET b == StoredRecords(lastOp.before)
           a == StoredRecords(file)
       IN  /\ Len(b) = 2 /\ Len(a) = 2
           /\ \E i, j \in 1..2 :
                 /\ SameKey(b[i], lastOp.arg) /\ b[i].spoken # "true"
                 /\ a[i].spoken = "true"
                 /\ ~SameKey(b[j], lastOp.arg)
                 /\ b[j].timestamp = lastOp.arg.timestamp
                 /\ b[j].spoken # "true" /\ a[j].spoken = b[j].spoken

\* The stored records that stand before the first one with n's timestamp
\* and message.
RECURSIVE Before(_, _)
Before(rs, n) ==
    IF rs = <<>> \/ SameKey(Head(rs), n) THEN <<>>
    ELSE <<Head(rs)>> \o Before(Tail(rs), n)

\* C24: a tick takes the polled records in file order, one at a time.  A
\* Speak starts only at the head of the loop and for the first record not
\* yet handled; the loop passes to the next record only in MarkSpoken;
\* MarkSpoken is called only after the Speak has returned; and, when no call
\* of the tick has failed, every record before the one whose Speak starts is
\* spoken in the store.
C24_RecordsInFileOrder ==
    [][\A t \in LoopIds :
          (threads'[t] # threads[t]) =>
              /\ threads'[t].pc = "enter" =>
                    /\ threads[t].pc = "iter"
                    /\ threads[t].ns # <<>>
                    /\ threads'[t].ns = threads[t].ns
                    /\ ~failed[t] =>
                          \A r \in Range(Before(StoredRecords(file),
                                                Head(threads[t].ns))) :
                              r.spoken = "true"
              /\ (threads[t].pc = "while" /\ threads'[t].pc = "iter") =>
                    threads'[t].ns = PollUnspoken(file).recs
              /\ (threads[t].pc # "while"
                    /\ threads'[t].ns # threads[t].ns) =>
                    \/ threads'[t].ns = <<>> /\ threads'[t].pc = "sleep"
                    \/ /\ threads[t].pc \in {"mark_read", "mark_write"}
                       /\ threads'[t].ns = Tail(threads[t].ns)
              /\ threads'[t].pc = "mark_read" => threads[t].pc = "after"
              /\ threads'[t].pc = "after" => threads[t].pc = "finally"]_vars

\* The Speak of the second record of the store is starting, the first one
\* spoken in the store.
C24_Witness ==
    \E t \in LoopIds :
        /\ threads[t].pc = "enter"
        /\ Len(StoredRecords(file)) = 2
        /\ SameKey(Head(threads[t].ns), StoredRecords(file)[2])
        /\ StoredRecords(file)[1].spoken = "true"

\* No voice of the local engine is in the catalog.
NoLocalFound == \A i \in 1..Len(voices) : voices[i] # system_voices[1]

C26_SkipNeverStalls ==
    /\ stop_speech_flag ~> ~stop_speech_flag
    /\ stop_speech_flag ~>
           (\A i \in 1..Len(StoredRecords(file)) :
                ~Unspoken(StoredRecords(file)[i]))

\* C27: a record whose utterance failed is not marked: when the failure of
\* the tick is the one of the first record taken up, whose utterance has
\* just returned, the store is not rewritten for it.
C27_FailedStaysUnspoken ==
    [][\A t \in LoopIds :
          (/\ threads[t].pc = "mark_write"
           /\ failed[t]
           /\ threads[t].ns = PollUnspoken(file).recs) =>
              file' = file]_vars

\* The store holds the record n as spoken.
MarkedInStore(n) ==
    \E i \in 1..Len(StoredRecords(file)) :
        /\ SameKey(StoredRecords(file)[i], n)
        /\ ~Unspoken(StoredRecords(file)[i])

\* C28: a record that the store holds as spoken is not spoken again: no
\* loop starts an utterance for it, whatever Start, Stop, changes of the
\* interval and Skip came before.
C28_SpokenAtMostOnce ==
    [][\A t \in LoopIds :
          (threads[t].pc = "iter" /\ threads'[t].pc = "enter") =>
              ~MarkedInStore(Head(threads[t].ns))]_vars

\* C29: whenever a speech worker is synthesizing or playing, the local
\* utterance included, is_speaking_live is true: neither Skip nor the end of
\* another session clears it under a worker that still runs.
C29_FlagHeldDuringSession ==
    \A t \in ThreadIds : threads[t].pc \in InSession => is_speaking_live

=============================================================================
